---- MODULE Spec2Model ----
(***************************************************************************)
(* A model of the exchange's matching pipeline: the memory-mapped SPSC     *)
(* ring queue (core/memmap), the sequencer (core/sequencer), the matching  *)
(* engine (core/engine) and the limit order book (src/lib.rs).             *)
(***************************************************************************)
EXTENDS Integers, Sequences, FiniteSets, TLC

(***************************************************************************)
(* Bounds of the model.                                                    *)
(***************************************************************************)
\* log2 of the capacity of the queue of the producer/consumer specification
CapLog == 1
\* width in bits of the head and tail counters (u64 in the source)
IndexBits == 2
\* largest payload a slot of the producer/consumer queue holds (slot_size - 4)
MaxPayload == 2
\* number of successful enqueues the producer performs
MaxEnq == 5

\* prices are 1..MaxPrice (f64 under a total order in the source)
MaxPrice == 2
\* order sizes are 1..MaxSize
MaxSize == 2
\* width in bits of an order size and of a level's volume (u64 in the source)
SizeBits == 4
\* number of orders inserted into the book of the order-book specification
MaxOrders == 4

\* log2 of the capacity of the four queues of the pipeline (1024 slots in
\* the source)
PipeCapLog == 1
\* log2 of the capacity of the write-ahead log (4096 slots in the source)
LogCapLog == 1
\* number of submissions the order manager makes
MaxSubmit == 3
\* number of orders MatchingEngine::run takes from rx
MaxMatch == 4
\* number of orders a caller sends on tx before it calls run
MaxSent == 2
\* number of operations applied to a queue opened from an existing file
MaxOps == 2

\* Option::None of a reference; the handles of the arenas start at 1
NULL == 0

RECURSIVE Pow2(_)
Pow2(n) == IF n = 0 THEN 1 ELSE 2 * Pow2(n - 1)

\* u64 arithmetic, scaled to IndexBits bits
Modulus == Pow2(IndexBits)
WrapAdd(a, b) == (a + b) % Modulus

\* a subtraction that does not wrap
PlainSub(a, b) == a - b

WrapSub(a, b) == ((a - b) + Modulus) % Modulus

RECURSIVE BitAnd(_, _)
BitAnd(a, b) ==
    IF a = 0 \/ b = 0 THEN 0
    ELSE (a % 2) * (b % 2) + 2 * BitAnd(a \div 2, b \div 2)

IsPowerOfTwo(n) == \E k \in 0..IndexBits : n = Pow2(k)

IsPrefix(s, t) == Len(s) <= Len(t) /\ SubSeq(t, 1, Len(s)) = s

(***************************************************************************)
(* MmapQueue: the header fields and the slots of one mapped file.  A slot  *)
(* is [u32 length][payload bytes, zero padded to slot_size - 4].           *)
(***************************************************************************)
Zeros(n) == [i \in 1..n |-> 0]

\* copy_nonoverlapping of the payload, then write_bytes(0) over the rest
PadPayload(payload, room) ==
    [i \in 1..room |-> IF i <= Len(payload) THEN payload[i] ELSE 0]

Create(capacity, slot_payload_size) ==
    [capacity  |-> capacity,
     slot_size |-> 4 + slot_payload_size,
     mask      |-> capacity - 1,
     head      |-> 0,
     tail      |-> 0,
     slots     |-> [i \in 0..(capacity - 1) |->
                        [len |-> 0, buf |-> Zeros(slot_payload_size)]]]

\* a size check that lets every payload through
FitsAnySlot(q, payload) == FALSE

\* payload.len() > self.slot_size - 4
TooLarge(q, payload) == Len(payload) > q.slot_size - 4

\* a full-queue test that lets one more message in than there are slots
IsOverflowOffByOne(q, tail, head) == WrapSub(WrapAdd(tail, 1), head) > q.capacity + 1

\* a full-queue test that keeps one slot unused
IsOverflowEarly(q, tail, head) == WrapSub(WrapAdd(tail, 1), head) >= q.capacity

\* next_tail.wrapping_sub(head) as usize > self.capacity
IsOverflow(q, tail, head) == WrapSub(WrapAdd(tail, 1), head) > q.capacity

\* (index as usize) & self.mask
SlotIndex(q, index) == BitAnd(index, q.mask)

\* ptr::write_unaligned(len_ptr, payload.len() as u32)
WriteLen(q, idx, payload) == [q EXCEPT !.slots[idx].len = Len(payload)]

\* the copy of the payload and the zeroing of the remainder of the slot
WriteBuf(q, idx, payload) ==
    [q EXCEPT !.slots[idx].buf = PadPayload(payload, q.slot_size - 4)]

\* len > self.slot_size - 4
CorruptedLen(q, len) == len > q.slot_size - 4

\* vec![0u8; len] filled by copy_nonoverlapping(buf_ptr, out, len)
ReadBuf(q, idx, len) == SubSeq(q.slots[idx].buf, 1, len)

\* enqueue run to completion by a caller nobody interleaves with
Enqueue(q, payload) ==
    IF TooLarge(q, payload) THEN [ok |-> FALSE, err |-> "too_large", q |-> q]
    ELSE IF IsOverflow(q, q.tail, q.head)
         THEN [ok |-> FALSE, err |-> "overflow", q |-> q]
         ELSE LET idx == SlotIndex(q, q.tail)
                  written == WriteBuf(WriteLen(q, idx, payload), idx, payload)
              IN  [ok |-> TRUE, err |-> "none",
                   q |-> [written EXCEPT !.tail = WrapAdd(q.tail, 1)]]

\* dequeue run to completion by a caller nobody interleaves with
Dequeue(q) ==
    IF q.tail = q.head THEN [kind |-> "none", out |-> <<>>, q |-> q]
    ELSE LET idx == SlotIndex(q, q.head)
             len == q.slots[idx].len
         IN  IF CorruptedLen(q, len) THEN [kind |-> "err", out |-> <<>>, q |-> q]
             ELSE [kind |-> "some", out |-> ReadBuf(q, idx, len),
                   q |-> [q EXCEPT !.head = WrapAdd(q.head, 1)]]

(***************************************************************************)
(* LimitOrderBook.  Orders and price levels are reference counted objects  *)
(* in the source; here they live in two arenas and a reference is an index *)
(* into its arena, NULL for None.                                          *)
(***************************************************************************)
SizeModulus == Pow2(SizeBits)
AddU64(a, b) == (a + b) % SizeModulus
SubU64(a, b) == ((a - b) + SizeModulus) % SizeModulus

Prices == 1..MaxPrice
Sizes == 1..MaxSize
Sides == {"ASK", "BID"}

\* LimitOrderBook::from(book_id)
EmptyBook ==
    [orders   |-> <<>>,
     limits   |-> <<>>,
     ask_list |-> <<>>,
     bid_list |-> <<>>,
     ask_map  |-> <<>>,
     bid_map  |-> <<>>,
     ord_map  |-> <<>>,
     best_ask |-> NULL,
     best_bid |-> NULL]

\* Limit::new(price)
NewLimit(price) == [price |-> price, vol |-> 0, head |-> NULL, tail |-> NULL]

\* Order::from(raw_order)
OrderFrom(raw) ==
    [seq_id     |-> raw.seq_id,
     order_id   |-> raw.order_id,
     quote      |-> raw.quote,
     price      |-> raw.price,
     size       |-> raw.size,
     side       |-> raw.side,
     order_type |-> raw.order_type,
     prev       |-> NULL,
     next       |-> NULL]

MapOf(side) == IF side = "ASK" THEN "ask_map" ELSE "bid_map"
ListOf(side) == IF side = "ASK" THEN "ask_list" ELSE "bid_list"

\* a map without one key
Without(f, k) == [x \in (DOMAIN f) \ {k} |-> f[x]]

\* a cache that follows every insert
BestAlwaysNewest(best, oh) == oh

\* insert, lines 91-102: the cache takes the new order only when it is None
BestAfterInsert(best, oh) == IF best = NULL THEN oh ELSE best

\* a level that enters the hash index alone
LadderUntouched(f, price, lh) == f

\* insert, line 72: list.insert(OrderedFloat(price), limit.clone()) inside
\* or_insert_with, with the level the hash index gets
LadderInsert(f, price, lh) == (price :> lh) @@ f

\* LimitOrderBook::insert
Insert(b, raw) ==
    LET oh     == Len(b.orders) + 1
        mapF   == MapOf(raw.side)
        listF  == ListOf(raw.side)
        exists == raw.price \in DOMAIN b[mapF]
        lh     == IF exists THEN b[mapF][raw.price] ELSE Len(b.limits) + 1
        limits == IF exists THEN b.limits ELSE Append(b.limits, NewLimit(raw.price))
        lim    == limits[lh]
        tail   == lim.tail
        order  == [OrderFrom(raw) EXCEPT !.prev = tail]
        orders == IF tail # NULL
                  THEN [Append(b.orders, order) EXCEPT ![tail].next = oh]
                  ELSE Append(b.orders, order)
        lim1   == [lim EXCEPT !.vol = AddU64(lim.vol, raw.size),
                              !.head = IF tail # NULL THEN lim.head ELSE oh,
                              !.tail = oh]
    IN  [b EXCEPT
           !.orders   = orders,
           !.limits   = [limits EXCEPT ![lh] = lim1],
           ![mapF]    = IF exists THEN b[mapF] ELSE (raw.price :> lh) @@ b[mapF],
           ![listF]   = IF exists THEN b[listF] ELSE LadderInsert(b[listF], raw.price, lh),
           !.best_ask = IF raw.side = "ASK" THEN BestAfterInsert(b.best_ask, oh)
                        ELSE b.best_ask,
           !.best_bid = IF raw.side = "BID" THEN BestAfterInsert(b.best_bid, oh)
                        ELSE b.best_bid,
           !.ord_map  = (raw.order_id :> oh) @@ b.ord_map]

\* LimitOrderBook::depth
Depth(b, side, price) ==
    IF price \in DOMAIN b[MapOf(side)]
    THEN [is_some |-> TRUE, val |-> b.limits[b[MapOf(side)][price]].vol]
    ELSE [is_some |-> FALSE, val |-> 0]

\* a removal that leaves the next order's prev as it was
UnlinkOneWay(b, order_id) ==
    LET oh   == b.ord_map[order_id]
        prev == b.orders[oh].prev
        next == b.orders[oh].next
        o1   == [b.orders EXCEPT ![oh].prev = NULL, ![oh].next = NULL]
        o2   == IF prev # NULL THEN [o1 EXCEPT ![prev].next = next] ELSE o1
    IN  [b EXCEPT !.ord_map = Without(b.ord_map, order_id), !.orders = o2]

\* remove: the order leaves the index and its neighbours are linked to each
\* other (lines 151-172)
Unlink(b, order_id) ==
    LET oh   == b.ord_map[order_id]
        prev == b.orders[oh].prev
        next == b.orders[oh].next
        o1   == [b.orders EXCEPT ![oh].prev = NULL, ![oh].next = NULL]
        o2   == IF prev # NULL THEN [o1 EXCEPT ![prev].next = next] ELSE o1
        o3   == IF next # NULL THEN [o2 EXCEPT ![next].prev = prev] ELSE o2
    IN  [b EXCEPT !.ord_map = Without(b.ord_map, order_id), !.orders = o3]

\* remove: limit.vol -= order.size would go below zero
RemoveUnderflows(b, order_id) ==
    /\ order_id \in DOMAIN b.ord_map
    /\ LET o == b.orders[b.ord_map[order_id]]
       IN  /\ o.price \in DOMAIN b[MapOf(o.side)]
           /\ b.limits[b[MapOf(o.side)][o.price]].vol < o.size

\* a level that stays in the index after its last order left
LevelKept(f, price) == f

\* remove, lines 186-193: map.remove(price) and list.remove(price)
EraseLevel(f, price) == Without(f, price)

\* LimitOrderBook::remove (the subtraction wraps: a build without overflow
\* checks)
Remove(b, order_id) ==
    IF order_id \notin DOMAIN b.ord_map THEN b
    ELSE
      LET oh    == b.ord_map[order_id]
          o     == b.orders[oh]
          prev  == o.prev
          next  == o.next
          u     == Unlink(b, order_id)
          mapF  == MapOf(o.side)
          listF == ListOf(o.side)
          has   == o.price \in DOMAIN u[mapF]
          lh    == IF has THEN u[mapF][o.price] ELSE NULL
          lims1 == IF has
                   THEN [u.limits EXCEPT ![lh].vol = SubU64(u.limits[lh].vol, o.size)]
                   ELSE u.limits
      IN  IF prev = NULL /\ next = NULL
          THEN [u EXCEPT !.limits = lims1,
                         ![mapF]  = EraseLevel(u[mapF], o.price),
                         ![listF] = EraseLevel(u[listF], o.price)]
          ELSE IF prev = NULL /\ next # NULL
          THEN [u EXCEPT !.limits = IF has THEN [lims1 EXCEPT ![lh].head = next]
                                    ELSE lims1]
          ELSE IF prev # NULL /\ next = NULL
          THEN [u EXCEPT !.limits = IF has THEN [lims1 EXCEPT ![lh].tail = next]
                                    ELSE lims1]
          ELSE [u EXCEPT !.limits = lims1]

\* the orders reachable from order handle h through next links, in order
RECURSIVE ChainFrom(_, _, _)
ChainFrom(b, h, fuel) ==
    IF h = NULL \/ fuel = 0 THEN <<>>
    ELSE <<h>> \o ChainFrom(b, b.orders[h].next, fuel - 1)

\* the orders of a level: those reachable from its head
LevelOrders(b, lh) == ChainFrom(b, b.limits[lh].head, Len(b.orders))

RECURSIVE SumSizes(_, _)
SumSizes(b, hs) ==
    IF hs = <<>> THEN 0 ELSE b.orders[Head(hs)].size + SumSizes(b, Tail(hs))

\* the levels that exist: those a side's hash index or price ladder refers to
LiveLimits(b) ==
    {b.ask_map[p] : p \in DOMAIN b.ask_map} \cup {b.bid_map[p] : p \in DOMAIN b.bid_map}
    \cup {b.ask_list[p] : p \in DOMAIN b.ask_list}
    \cup {b.bid_list[p] : p \in DOMAIN b.bid_list}

\* the least and the greatest key of a non-empty price ladder
MinKey(f) == CHOOSE p \in DOMAIN f : \A q \in DOMAIN f : p <= q
MaxKey(f) == CHOOSE p \in DOMAIN f : \A q \in DOMAIN f : p >= q

\* LimitOrderBook::update_best: best_<side> becomes the head of the top level
\* of the side (lowest ASK price, highest BID price), None on an empty side
UpdateBest(b, side) ==
    LET list == b[ListOf(side)]
        top  == IF DOMAIN list = {} THEN NULL
                ELSE IF side = "ASK" THEN b.limits[list[MinKey(list)]].head
                ELSE b.limits[list[MaxKey(list)]].head
    IN  IF side = "ASK" THEN [b EXCEPT !.best_ask = top]
        ELSE [b EXCEPT !.best_bid = top]

(***************************************************************************)
(* Messages and their binary encoding (bincode: the fields in declaration  *)
(* order, an enum as the index of its variant followed by its fields).     *)
(***************************************************************************)
\* size_of::<OrderValue>(), size_of::<RawOrder>() and
\* size_of::<ExecuteMessage>(), counted in fields
OrderValueSize == 6
RawOrderSize == 7
ExecuteMessageSize == 4

SideCode(side) == IF side = "ASK" THEN 0 ELSE 1
SideOf(code) == IF code = 0 THEN "ASK" ELSE "BID"
TypeCode(order_type) == IF order_type = "LIMIT" THEN 0 ELSE 1
TypeOf(code) == IF code = 0 THEN "LIMIT" ELSE "MARKET"

\* bincode::serialize(&OrderValue)
SerializeOrderValue(v) ==
    <<v.quote, v.order_id, v.price, v.size, SideCode(v.side), TypeCode(v.order_type)>>

\* bincode::deserialize::<OrderValue>: an error on a short input or on a
\* variant index no variant has
DeserializeOrderValue(bytes) ==
    IF Len(bytes) >= 6 /\ bytes[5] \in {0, 1} /\ bytes[6] \in {0, 1}
    THEN [ok |-> TRUE,
          val |-> [quote |-> bytes[1], order_id |-> bytes[2], price |-> bytes[3],
                   size |-> bytes[4], side |-> SideOf(bytes[5]),
                   order_type |-> TypeOf(bytes[6])]]
    ELSE [ok |-> FALSE, val |-> NULL]

\* OrderValue::into_raw
IntoRaw(v, seq) ==
    [seq_id     |-> seq,
     order_id   |-> v.order_id,
     quote      |-> v.quote,
     price      |-> v.price,
     size       |-> v.size,
     side       |-> v.side,
     order_type |-> v.order_type]

\* bincode::serialize(&RawOrder)
SerializeRawOrder(r) ==
    <<r.seq_id, r.order_id, r.quote, r.price, r.size, SideCode(r.side),
      TypeCode(r.order_type)>>

\* bincode::deserialize::<RawOrder>
DeserializeRawOrder(bytes) ==
    IF Len(bytes) >= 7 /\ bytes[6] \in {0, 1} /\ bytes[7] \in {0, 1}
    THEN [ok |-> TRUE,
          val |-> [seq_id |-> bytes[1], order_id |-> bytes[2], quote |-> bytes[3],
                   price |-> bytes[4], size |-> bytes[5], side |-> SideOf(bytes[6]),
                   order_type |-> TypeOf(bytes[7])]]
    ELSE [ok |-> FALSE, val |-> NULL]

\* Execution: INSERTED | CANCELLED | FILL | PARTIAL(price, qty)
Inserted == [kind |-> "INSERTED", price |-> 0, qty |-> 0]
Fill == [kind |-> "FILL", price |-> 0, qty |-> 0]
Partial(price, qty) == [kind |-> "PARTIAL", price |-> price, qty |-> qty]

\* ExecuteMessage::new
ExecuteMessage(seq_id, execution) == [seq_id |-> seq_id, execution |-> execution]

ExecutionTag(kind) ==
    CASE kind = "INSERTED"  -> 0
      [] kind = "CANCELLED" -> 1
      [] kind = "FILL"      -> 2
      [] kind = "PARTIAL"   -> 3

\* ExecuteMessage::as_bytes
AsBytes(m) ==
    IF m.execution.kind = "PARTIAL"
    THEN <<m.seq_id, 3, m.execution.price, m.execution.qty>>
    ELSE <<m.seq_id, ExecutionTag(m.execution.kind)>>

\* whether bincode::deserialize::<ExecuteMessage> succeeds
DeserializeExecuteMessageOk(bytes) ==
    /\ Len(bytes) >= 2
    /\ \/ bytes[2] \in {0, 1, 2}
       \/ bytes[2] = 3 /\ Len(bytes) >= 4

(***************************************************************************)
(* The matching engine's handling of one sequenced order: the new book and *)
(* the execution messages in the order they are handed to enqueue, with    *)
(* the loop body's locals as it leaves them: other_side, is_match,         *)
(* quantity_to_trade and seq_order.size.                                   *)
(***************************************************************************)
Larger(a, b) == IF a <= b THEN b ELSE a

Min(a, b) == IF a <= b THEN a ELSE b

\* lob.remove(order.borrow().order_id.clone()): the Ref made by
\* order.borrow() lives to the end of the statement, so a borrow_mut() of the
\* same order inside remove panics (BorrowMutError)
RemoveBorrowConflict(b, order_id, borrowed) ==
    /\ order_id \in DOMAIN b.ord_map
    /\ LET oh == b.ord_map[order_id]
       IN  \/ oh = borrowed
           \/ b.orders[oh].prev # NULL /\ b.orders[oh].prev = borrowed
           \/ b.orders[oh].next # NULL /\ b.orders[oh].next = borrowed

\* the book as remove leaves it when that borrow_mut() panics
RemoveUntilPanic(b, order_id, borrowed) ==
    LET oh   == b.ord_map[order_id]
        prev == b.orders[oh].prev
        next == b.orders[oh].next
        u0   == [b EXCEPT !.ord_map = Without(b.ord_map, order_id)]
        u1   == [u0 EXCEPT !.orders[oh].prev = NULL, !.orders[oh].next = NULL]
        u2   == IF prev # NULL THEN [u1 EXCEPT !.orders[prev].next = next] ELSE u1
    IN  IF oh = borrowed THEN u0
        ELSE IF prev # NULL /\ prev = borrowed THEN u1
        ELSE u2

\* a match that needs a strictly better price
IsMatchStrict(order, seq_order) ==
    IF order.side = "ASK" THEN seq_order.price > order.price
    ELSE order.price > seq_order.price

\* is_match (lines 68-71): a resting ASK is crossed by a price at or above
\* its own, a resting BID by a price at or below its own
IsMatch(order, seq_order) ==
    IF order.side = "ASK" THEN seq_order.price >= order.price
    ELSE order.price >= seq_order.price

\* the body of the loop over rx
\* the incoming order's message ahead of the resting order's
EmittedIncomingFirst(is_match, inorder_execution, outorder_execution) ==
    <<outorder_execution>> \o (IF is_match THEN <<inorder_execution>> ELSE <<>>)

\* the enqueue calls of one iteration, in program order: the resting order's
\* execution inside if is_match (line 94), the incoming order's last (line 114)
Emitted(is_match, inorder_execution, outorder_execution) ==
    (IF is_match THEN <<inorder_execution>> ELSE <<>>) \o <<outorder_execution>>

ProcessOrder(b, seq_order) ==
    LET outorder_execution == ExecuteMessage(seq_order.seq_id, Inserted)
        side       == seq_order.side
        other_side == IF side = "BID" THEN b.best_ask ELSE b.best_bid
    IN  IF other_side = NULL
        THEN [book |-> UpdateBest(Insert(b, seq_order), side),
              msgs |-> <<outorder_execution>>,
              panicked |-> FALSE,
              other_side |-> NULL, is_match |-> FALSE,
              quantity_to_trade |-> 0, size |-> seq_order.size]
        ELSE
          LET order    == b.orders[other_side]
              is_match == IsMatch(order, seq_order)
              quantity_to_trade == Min(order.size, seq_order.size)
              rest     == IF is_match THEN seq_order.size - quantity_to_trade
                          ELSE seq_order.size
              traded   == [b EXCEPT !.orders[other_side].size =
                                        order.size - quantity_to_trade]
              filled   == order.size - quantity_to_trade = 0
              panics   == /\ is_match
                          /\ filled
                          /\ RemoveBorrowConflict(traded, order.order_id, other_side)
              b1       == IF ~is_match THEN b
                          ELSE IF filled
                               THEN UpdateBest(Remove(traded, order.order_id), order.side)
                               ELSE traded
              inorder_execution ==
                  ExecuteMessage(order.seq_id,
                                 IF filled THEN Fill
                                 ELSE Partial(order.price, quantity_to_trade))
              b2       == IF rest # 0
                          THEN UpdateBest(Insert(b1, [seq_order EXCEPT !.size = rest]), side)
                          ELSE b1
          IN  IF panics
              THEN [book |-> RemoveUntilPanic(traded, order.order_id, other_side),
                    msgs |-> <<>>,
                    panicked |-> TRUE,
                    other_side |-> other_side, is_match |-> is_match,
                    quantity_to_trade |-> quantity_to_trade, size |-> rest]
              ELSE [book |-> b2,
                    msgs |-> Emitted(is_match, inorder_execution, outorder_execution),
                    panicked |-> FALSE,
                    other_side |-> other_side, is_match |-> is_match,
                    quantity_to_trade |-> IF is_match THEN quantity_to_trade ELSE 0,
                    size |-> rest]

(***************************************************************************)
(* State.                                                                  *)
(***************************************************************************)
VARIABLES
    queue,      \* the queue shared by one producer and one consumer
    prod,       \* the producer's position in enqueue and its locals
    cons,       \* the consumer's position in dequeue and its locals
    enqHist,    \* payloads of the successful enqueues, in order
    deqHist,    \* payloads returned by the successful dequeues, in order
    freed       \* a dequeue has completed since the last successful enqueue
                \* (prod.sawFreed: freed when enqueue was called;
                \*  prod.outstanding: messages in the queue at the head load)

VARIABLES
    book,         \* the LimitOrderBook of the order-book specification
    lobPanicked   \* an arithmetic overflow check has aborted that book's owner

VARIABLES
    inbound_manager,   \* queue: order manager -> sequencer
    write_head_log,    \* queue: the sequencer's write-ahead log
    inbound_engine,    \* queue: sequencer -> engine
    outbound_engine,   \* queue: engine -> sequencer
    outbound_manager,  \* queue: sequencer -> order manager
    sequencer,         \* Sequencer: seq, the position in run, its locals
    reader,            \* the engine thread that polls inbound_engine
    channel,           \* the engine's channel of RawOrders
    engine,            \* the engine thread that owns the book
    engineBook,        \* that thread's LimitOrderBook
    hist               \* what was submitted, logged, forwarded, seen, emitted

VARIABLES
    lob,             \* the LimitOrderBook owned by MatchingEngine::run's thread
    outbound_queue,  \* the queue that thread enqueues executions on
    run              \* that thread: whether it panicked, and a record of the
                     \* orders it took from rx and the messages it handed
                     \* to enqueue

VARIABLES
    caller           \* a caller of MatchingEngine::run: its position, the
                     \* channel it feeds, whether run has spawned the
                     \* thread, the messages that thread has yet to enqueue,
                     \* and what the caller's dequeue returned

VARIABLES
    mapped           \* a queue opened from an existing file by a caller nobody
                     \* interleaves with: the queue, the number of operations
                     \* applied, and the last operation, its payload and result

qvars == <<queue, prod, cons, enqHist, deqHist, freed>>
lvars == <<book, lobPanicked>>
pqueues == <<inbound_manager, write_head_log, inbound_engine, outbound_engine,
             outbound_manager>>
pvars == <<pqueues, sequencer, reader, channel, engine, engineBook, hist>>

evars == <<lob, outbound_queue, run, caller>>

vars == <<qvars, lvars, pvars, evars, mapped>>

\* what the steps of the producer and the consumer leave alone
notQueue == <<lvars, pvars, evars, mapped>>
\* what the operations on the book leave alone
notLob == <<qvars, pvars, evars, mapped>>
\* what the steps of the pipeline leave alone
notPipe == <<qvars, lvars, evars, mapped>>
\* what MatchingEngine::run leaves alone
notEngine == <<qvars, lvars, pvars, mapped>>

(***************************************************************************)
(* One producer and one consumer on one queue, step by step.               *)
(***************************************************************************)
Capacity == Pow2(CapLog)

\* payloads the producer offers; the last one does not fit a slot
QPayloads == {<<1>>, <<1, 0>>, <<2, 2>>, [i \in 1..(MaxPayload + 1) |-> 1]}

InitQueue ==
    /\ queue = Create(Capacity, MaxPayload)
    /\ prod = [pc |-> "idle", payload |-> <<>>, tail |-> 0, head |-> 0,
               res |-> "none", sawFreed |-> FALSE, outstanding |-> 0]
    /\ cons = [pc |-> "idle", head |-> 0, tail |-> 0, len |-> 0, out |-> <<>>,
               res |-> "none"]
    /\ enqHist = <<>>
    /\ deqHist = <<>>
    /\ freed = FALSE

\* enqueue is called: the size check
PStart ==
    /\ prod.pc = "idle"
    /\ Len(enqHist) < MaxEnq
    /\ \E p \in QPayloads :
          IF TooLarge(queue, p)
          THEN prod' = [prod EXCEPT !.payload = p, !.res = "too_large",
                                    !.sawFreed = freed]
          ELSE prod' = [prod EXCEPT !.payload = p, !.res = "none",
                                    !.pc = "load_tail", !.sawFreed = freed]
    /\ UNCHANGED <<queue, cons, enqHist, deqHist, freed>>
    /\ UNCHANGED notQueue

\* let tail = self.header().tail.load(Acquire)
PLoadTail ==
    /\ prod.pc = "load_tail"
    /\ prod' = [prod EXCEPT !.tail = queue.tail, !.pc = "load_head"]
    /\ UNCHANGED <<queue, cons, enqHist, deqHist, freed>>
    /\ UNCHANGED notQueue

\* let head = self.header().head.load(Acquire), and the overflow check
PLoadHead ==
    /\ prod.pc = "load_head"
    /\ IF IsOverflow(queue, prod.tail, queue.head)
       THEN prod' = [prod EXCEPT !.head = queue.head, !.res = "overflow",
                                 !.pc = "idle",
                                 !.outstanding = Len(enqHist) - Len(deqHist)]
       ELSE prod' = [prod EXCEPT !.head = queue.head, !.pc = "write_len",
                                 !.outstanding = Len(enqHist) - Len(deqHist)]
    /\ UNCHANGED <<queue, cons, enqHist, deqHist, freed>>
    /\ UNCHANGED notQueue

PWriteLen ==
    /\ prod.pc = "write_len"
    /\ queue' = WriteLen(queue, SlotIndex(queue, prod.tail), prod.payload)
    /\ prod' = [prod EXCEPT !.pc = "write_buf"]
    /\ UNCHANGED <<cons, enqHist, deqHist, freed>>
    /\ UNCHANGED notQueue

PWriteBuf ==
    /\ prod.pc = "write_buf"
    /\ queue' = WriteBuf(queue, SlotIndex(queue, prod.tail), prod.payload)
    /\ prod' = [prod EXCEPT !.pc = "publish"]
    /\ UNCHANGED <<cons, enqHist, deqHist, freed>>
    /\ UNCHANGED notQueue

\* self.header().tail.store(next_tail, Release); Ok(())
PPublish ==
    /\ prod.pc = "publish"
    /\ queue' = [queue EXCEPT !.tail = WrapAdd(prod.tail, 1)]
    /\ prod' = [prod EXCEPT !.pc = "idle", !.res = "ok"]
    /\ enqHist' = Append(enqHist, prod.payload)
    /\ freed' = FALSE
    /\ UNCHANGED <<cons, deqHist>>
    /\ UNCHANGED notQueue

\* dequeue is called: let head = self.header().head.load(Acquire)
CLoadHead ==
    /\ cons.pc = "idle"
    /\ cons' = [cons EXCEPT !.head = queue.head, !.res = "none", !.pc = "load_tail"]
    /\ UNCHANGED <<queue, prod, enqHist, deqHist, freed>>
    /\ UNCHANGED notQueue

\* let tail = self.header().tail.load(Acquire), and the empty check
CLoadTail ==
    /\ cons.pc = "load_tail"
    /\ IF queue.tail = cons.head
       THEN cons' = [cons EXCEPT !.tail = queue.tail, !.res = "empty", !.pc = "idle"]
       ELSE cons' = [cons EXCEPT !.tail = queue.tail, !.pc = "read_len"]
    /\ UNCHANGED <<queue, prod, enqHist, deqHist, freed>>
    /\ UNCHANGED notQueue

\* let len = ptr::read_unaligned(len_ptr), and the corruption check
CReadLen ==
    /\ cons.pc = "read_len"
    /\ LET len == queue.slots[SlotIndex(queue, cons.head)].len
       IN  IF CorruptedLen(queue, len)
           THEN cons' = [cons EXCEPT !.len = len, !.res = "err", !.pc = "idle"]
           ELSE cons' = [cons EXCEPT !.len = len, !.pc = "copy"]
    /\ UNCHANGED <<queue, prod, enqHist, deqHist, freed>>
    /\ UNCHANGED notQueue

CCopy ==
    /\ cons.pc = "copy"
    /\ cons' = [cons EXCEPT !.out = ReadBuf(queue, SlotIndex(queue, cons.head), cons.len),
                            !.pc = "advance"]
    /\ UNCHANGED <<queue, prod, enqHist, deqHist, freed>>
    /\ UNCHANGED notQueue

\* self.header().head.store(next_head, Release); Ok(Some(out))
CAdvance ==
    /\ cons.pc = "advance"
    /\ queue' = [queue EXCEPT !.head = WrapAdd(cons.head, 1)]
    /\ cons' = [cons EXCEPT !.pc = "idle", !.res = "some"]
    /\ deqHist' = Append(deqHist, cons.out)
    /\ freed' = TRUE
    /\ UNCHANGED <<prod, enqHist>>
    /\ UNCHANGED notQueue

NextQueue ==
    \/ PStart
    \/ PLoadTail
    \/ PLoadHead
    \/ PWriteLen
    \/ PWriteBuf
    \/ PPublish
    \/ CLoadHead
    \/ CLoadTail
    \/ CReadLen
    \/ CCopy
    \/ CAdvance

(***************************************************************************)
(* The order book under insert and remove.                                 *)
(***************************************************************************)
InitLob ==
    /\ book = EmptyBook
    /\ lobPanicked = FALSE

\* the raw orders a caller may insert next: any price, size and side, under
\* a fresh order id or one used before
LobInputs ==
    [seq_id     : {Len(book.orders)},
     order_id   : 1..(Len(book.orders) + 1),
     quote      : {0},
     price      : Prices,
     size       : Sizes,
     side       : Sides,
     order_type : {"LIMIT"}]

LobInsert ==
    /\ ~lobPanicked
    /\ Len(book.orders) < MaxOrders
    /\ \E raw \in LobInputs : book' = Insert(book, raw)
    /\ UNCHANGED lobPanicked
    /\ UNCHANGED notLob

LobRemove ==
    /\ ~lobPanicked
    /\ \E id \in 1..MaxOrders : book' = Remove(book, id)
    /\ UNCHANGED lobPanicked
    /\ UNCHANGED notLob

\* remove in a build with overflow checks: the subtraction panics
LobRemovePanics ==
    /\ ~lobPanicked
    /\ \E id \in 1..MaxOrders :
          /\ RemoveUnderflows(book, id)
          /\ book' = Unlink(book, id)
    /\ lobPanicked' = TRUE
    /\ UNCHANGED notLob

NextLob ==
    \/ LobInsert
    \/ LobRemove
    \/ LobRemovePanics

(***************************************************************************)
(* The pipeline: order manager -> sequencer -> engine -> sequencer ->      *)
(* order manager.  Every queue has one producer and one consumer, so each  *)
(* enqueue and dequeue is taken as one step here.                          *)
(***************************************************************************)
PipeCapacity == Pow2(PipeCapLog)
LogCapacity == Pow2(LogCapLog)

\* the orders the order manager chooses from: they rest, cross in part and
\* cross in full
PipeOrders ==
    {[price |-> 1, size |-> 2, side |-> "ASK"],
     [price |-> 2, size |-> 1, side |-> "ASK"],
     [price |-> 1, size |-> 1, side |-> "BID"],
     [price |-> 2, size |-> 2, side |-> "BID"]}

\* bytes no message decodes from
Malformed == <<9>>

\* Sequencer::new, and the engine's threads before their first step
InitPipeline ==
    /\ inbound_manager = Create(PipeCapacity, OrderValueSize)
    /\ inbound_engine = Create(PipeCapacity, RawOrderSize)
    /\ outbound_engine = Create(PipeCapacity, ExecuteMessageSize)
    /\ outbound_manager = Create(PipeCapacity, ExecuteMessageSize)
    /\ write_head_log = Create(LogCapacity, RawOrderSize)
    /\ sequencer = [pc |-> "in_deq", seq |-> 0, v |-> <<>>, payload |-> <<>>,
                    err |-> "none", seq_at_take |-> 0]
    /\ reader = [pc |-> "poll", msg |-> NULL]
    /\ channel = <<>>
    /\ engine = [pending |-> <<>>, panicked |-> FALSE]
    /\ engineBook = EmptyBook
    /\ hist = [submitted |-> <<>>, logged |-> <<>>, forwarded |-> <<>>,
               lobSeen |-> <<>>, emitted |-> <<>>, taken |-> <<>>,
               delivered |-> <<>>]

\* what the order manager may submit next: an encoded OrderValue under the
\* next order id, or bytes that decode to nothing
ManagerPayloads ==
    {SerializeOrderValue([quote |-> 0, order_id |-> Len(hist.submitted) + 1,
                          price |-> o.price, size |-> o.size, side |-> o.side,
                          order_type |-> "LIMIT"]) : o \in PipeOrders}
    \cup {Malformed}

\* the order manager enqueues a submission on inbound-manager
ManagerSubmit ==
    /\ Len(hist.submitted) < MaxSubmit
    /\ \E bytes \in ManagerPayloads :
          LET e == Enqueue(inbound_manager, bytes)
          IN  /\ e.ok
              /\ inbound_manager' = e.q
              /\ hist' = [hist EXCEPT !.submitted = Append(@, bytes)]
    /\ UNCHANGED <<write_head_log, inbound_engine, outbound_engine, outbound_manager,
                   sequencer, reader, channel, engine, engineBook>>
    /\ UNCHANGED notPipe

\* the order manager takes an execution from outbound-manager
ManagerReceive ==
    /\ LET d == Dequeue(outbound_manager)
       IN  /\ d.kind = "some"
           /\ outbound_manager' = d.q
    /\ UNCHANGED <<inbound_manager, write_head_log, inbound_engine, outbound_engine,
                   sequencer, reader, channel, engine, engineBook, hist>>
    /\ UNCHANGED notPipe

\* where run goes on after the inbound half of a round, and after the
\* outbound half
AfterInboundOnly == "in_deq"
AfterInbound == "out_deq"
AfterOutbound == "in_deq"

\* seq one past the value into_raw was given
SeqNotAdvanced(seq) == seq
SeqAdvanced(seq) == seq + 1

\* the payload handed to the log and to inbound-engine
Promoted(v, seq) == SerializeRawOrder(IntoRaw(v, seq))

\* run, lines 71-74: dequeue inbound-manager, decode, promote, seq += 1
SeqTake ==
    /\ sequencer.pc = "in_deq"
    /\ LET d == Dequeue(inbound_manager)
       IN  IF d.kind = "some"
           THEN /\ inbound_manager' = d.q
                /\ LET v == DeserializeOrderValue(d.out)
                   IN  IF v.ok
                       THEN sequencer' =
                              [sequencer EXCEPT !.v = d.out,
                                                !.payload = Promoted(v.val, sequencer.seq),
                                                !.seq = SeqAdvanced(sequencer.seq),
                                                !.seq_at_take = sequencer.seq,
                                                !.pc = "in_log"]
                       ELSE sequencer' =
                              [sequencer EXCEPT !.v = d.out,
                                                !.seq_at_take = sequencer.seq,
                                                !.err = "decode_in",
                                                !.pc = "failed"]
           ELSE /\ sequencer' = [sequencer EXCEPT !.pc = AfterInbound]
                /\ UNCHANGED inbound_manager
    /\ UNCHANGED <<write_head_log, inbound_engine, outbound_engine, outbound_manager,
                   reader, channel, engine, engineBook, hist>>
    /\ UNCHANGED notPipe

\* a failed log enqueue that run does not propagate
LogFailureIgnored(s) == [s EXCEPT !.pc = "in_fwd"]

\* the ? of line 75: a failed log enqueue ends run with the error
LogFailed(s) == [s EXCEPT !.err = "log", !.pc = "failed"]

\* run, line 75: event_mmap_log.enqueue(&payload)?
SeqLog ==
    /\ sequencer.pc = "in_log"
    /\ LET e == Enqueue(write_head_log, sequencer.payload)
       IN  IF e.ok
           THEN /\ write_head_log' = e.q
                /\ sequencer' = [sequencer EXCEPT !.pc = "in_fwd"]
                /\ hist' = [hist EXCEPT !.logged = Append(@, sequencer.payload)]
           ELSE /\ sequencer' = LogFailed(sequencer)
                /\ UNCHANGED <<write_head_log, hist>>
    /\ UNCHANGED <<inbound_manager, inbound_engine, outbound_engine, outbound_manager,
                   reader, channel, engine, engineBook>>
    /\ UNCHANGED notPipe

\* run, line 77: inbound_engine.enqueue(&payload)?
SeqForward ==
    /\ sequencer.pc = "in_fwd"
    /\ LET e == Enqueue(inbound_engine, sequencer.payload)
       IN  IF e.ok
           THEN /\ inbound_engine' = e.q
                /\ sequencer' = [sequencer EXCEPT !.pc = AfterInbound]
                /\ hist' = [hist EXCEPT !.forwarded = Append(@, sequencer.payload)]
           ELSE /\ sequencer' = [sequencer EXCEPT !.err = "forward", !.pc = "failed"]
                /\ UNCHANGED <<inbound_engine, hist>>
    /\ UNCHANGED <<inbound_manager, write_head_log, outbound_engine, outbound_manager,
                   reader, channel, engine, engineBook>>
    /\ UNCHANGED notPipe

\* run, lines 80-81: dequeue outbound-engine, decode
SeqTakeOut ==
    /\ sequencer.pc = "out_deq"
    /\ LET d == Dequeue(outbound_engine)
       IN  IF d.kind = "some"
           THEN /\ outbound_engine' = d.q
                /\ hist' = [hist EXCEPT !.taken = Append(@, d.out)]
                /\ IF DeserializeExecuteMessageOk(d.out)
                   THEN sequencer' = [sequencer EXCEPT !.v = d.out, !.pc = "out_fwd"]
                   ELSE sequencer' = [sequencer EXCEPT !.v = d.out,
                                                       !.err = "decode_out",
                                                       !.pc = "failed"]
           ELSE /\ sequencer' = [sequencer EXCEPT !.pc = AfterOutbound]
                /\ UNCHANGED <<outbound_engine, hist>>
    /\ UNCHANGED <<inbound_manager, write_head_log, inbound_engine, outbound_manager,
                   reader, channel, engine, engineBook>>
    /\ UNCHANGED notPipe

\* the bytes run hands to outbound-manager for the bytes v it took
Reencoded(v) == <<v[1], 0>>
Forwarded(v) == v

\* run, line 83: outbound_manager.enqueue(&v)?
SeqDeliver ==
    /\ sequencer.pc = "out_fwd"
    /\ LET e == Enqueue(outbound_manager, Forwarded(sequencer.v))
       IN  IF e.ok
           THEN /\ outbound_manager' = e.q
                /\ sequencer' = [sequencer EXCEPT !.pc = AfterOutbound]
                /\ hist' = [hist EXCEPT !.delivered = Append(@, Forwarded(sequencer.v))]
           ELSE /\ sequencer' = [sequencer EXCEPT !.err = "deliver", !.pc = "failed"]
                /\ UNCHANGED <<outbound_manager, hist>>
    /\ UNCHANGED <<inbound_manager, write_head_log, inbound_engine, outbound_engine,
                   reader, channel, engine, engineBook>>
    /\ UNCHANGED notPipe

SequencerStep ==
    \/ SeqTake
    \/ SeqLog
    \/ SeqForward
    \/ SeqTakeOut
    \/ SeqDeliver

\* engine main, lines 79-80: dequeue inbound-engine and decode (unwrap)
ReaderPoll ==
    /\ reader.pc = "poll"
    /\ LET d == Dequeue(inbound_engine)
       IN  /\ d.kind = "some"
           /\ inbound_engine' = d.q
           /\ LET r == DeserializeRawOrder(d.out)
              IN  IF r.ok
                  THEN reader' = [reader EXCEPT !.pc = "send", !.msg = r.val]
                  ELSE reader' = [reader EXCEPT !.pc = "panicked"]
    /\ UNCHANGED <<inbound_manager, write_head_log, outbound_engine, outbound_manager,
                   sequencer, channel, engine, engineBook, hist>>
    /\ UNCHANGED notPipe

\* a channel that hands the newest message out first
ChannelSendFront(ch, msg) == <<msg>> \o ch

\* tx.send(msg) on the unbounded channel
ChannelSend(ch, msg) == Append(ch, msg)

\* engine main, line 81: let _ = tx.send(msg); the send fails once the
\* receiving thread is gone
ReaderSend ==
    /\ reader.pc = "send"
    /\ channel' = IF engine.panicked THEN channel ELSE ChannelSend(channel, reader.msg)
    /\ reader' = [reader EXCEPT !.pc = "poll", !.msg = NULL]
    /\ UNCHANGED <<pqueues, sequencer, engine, engineBook, hist>>
    /\ UNCHANGED notPipe

\* the thread that owns the book takes the next order from rx and applies it
EngineProcess ==
    /\ ~engine.panicked
    /\ engine.pending = <<>>
    /\ channel # <<>>
    /\ LET r == ProcessOrder(engineBook, Head(channel))
       IN  /\ engineBook' = r.book
           /\ engine' = [pending |-> r.msgs, panicked |-> r.panicked]
    /\ channel' = Tail(channel)
    /\ hist' = [hist EXCEPT !.lobSeen = Append(@, Head(channel).seq_id)]
    /\ UNCHANGED <<pqueues, sequencer, reader>>
    /\ UNCHANGED notPipe

\* let _ = outbound_queue.enqueue(&execution.as_bytes())
EngineEmit ==
    /\ engine.pending # <<>>
    /\ LET bytes == AsBytes(Head(engine.pending))
           e == Enqueue(outbound_engine, bytes)
       IN  IF e.ok
           THEN /\ outbound_engine' = e.q
                /\ hist' = [hist EXCEPT !.emitted = Append(@, bytes)]
           ELSE UNCHANGED <<outbound_engine, hist>>
    /\ engine' = [engine EXCEPT !.pending = Tail(@)]
    /\ UNCHANGED <<inbound_manager, write_head_log, inbound_engine, outbound_manager,
                   sequencer, reader, channel, engineBook>>
    /\ UNCHANGED notPipe

NextPipeline ==
    \/ ManagerSubmit
    \/ ManagerReceive
    \/ SeqTake
    \/ SeqLog
    \/ SeqForward
    \/ SeqTakeOut
    \/ SeqDeliver
    \/ ReaderPoll
    \/ ReaderSend
    \/ EngineProcess
    \/ EngineEmit

(***************************************************************************)
(* MatchingEngine::run on its own: orders arrive on rx one after another,  *)
(* as in the engine's integration test.                                    *)
(***************************************************************************)
\* MatchingEngine::new
InitEngine ==
    /\ lob = EmptyBook
    /\ outbound_queue = Create(PipeCapacity, ExecuteMessageSize)
    /\ run = [panicked |-> FALSE, taken |-> <<>>, emitted |-> <<>>]
    /\ caller = [pc |-> "send", rx |-> <<>>, spawned |-> FALSE, pending |-> <<>>,
                 data |-> "none"]

\* the orders a sender may put on rx next: seq_ids count up from 0 and every
\* order has an order id of its own
EngineInputs ==
    [seq_id     : {Len(run.taken)},
     order_id   : {Len(run.taken) + 1},
     quote      : {0},
     price      : Prices,
     size       : Sizes,
     side       : Sides,
     order_type : {"LIMIT"}]

\* let _ = outbound_queue.enqueue(..) for each message in turn: a refused
\* message is dropped
RECURSIVE EnqueueAll(_, _)
EnqueueAll(q, msgs) ==
    IF msgs = <<>> THEN q
    ELSE EnqueueAll(Enqueue(q, AsBytes(Head(msgs))).q, Tail(msgs))

\* what run did with one order: the order as received, the loop body's
\* locals, the resting order as it was before, and whether the order went
\* into the book
Taken(b, seq_order, r) ==
    [order      |-> seq_order,
     other_side |-> r.other_side,
     is_match   |-> r.is_match,
     quantity_to_trade |-> r.quantity_to_trade,
     size       |-> r.size,
     resting_size |-> IF r.other_side = NULL THEN 0 ELSE b.orders[r.other_side].size,
     inserted   |-> seq_order.order_id \in DOMAIN r.book.ord_map,
     panicked   |-> r.panicked]

\* one iteration of the loop over rx (lines 57-115)
RunOrder ==
    /\ ~run.panicked
    /\ Len(run.taken) < MaxMatch
    /\ \E seq_order \in EngineInputs :
          LET r == ProcessOrder(lob, seq_order)
          IN  /\ lob' = r.book
              /\ outbound_queue' = EnqueueAll(outbound_queue, r.msgs)
              /\ run' = [panicked |-> r.panicked,
                         taken    |-> Append(run.taken, Taken(lob, seq_order, r)),
                         emitted  |-> run.emitted \o r.msgs]
    /\ UNCHANGED caller
    /\ UNCHANGED notEngine

NextEngine == RunOrder

(***************************************************************************)
(* A caller of MatchingEngine::run beside the thread run spawns, as in the *)
(* engine's integration test: send on tx, call run, dequeue the outbound   *)
(* queue.                                                                  *)
(***************************************************************************)
\* the orders the caller may send next
CallerInputs ==
    [seq_id     : {Len(caller.rx)},
     order_id   : {Len(caller.rx) + 1},
     quote      : {0},
     price      : Prices,
     size       : Sizes,
     side       : Sides,
     order_type : {"LIMIT"}]

\* tx.send(order)
CallerSend ==
    /\ caller.pc = "send"
    /\ Len(caller.rx) < MaxSent
    /\ \E order \in CallerInputs : caller' = [caller EXCEPT !.rx = Append(@, order)]
    /\ UNCHANGED <<lob, outbound_queue, run>>
    /\ UNCHANGED notEngine

\* engine.run(rx): the thread is spawned and run returns Ok(()) at once
CallerRun ==
    /\ caller.pc = "send"
    /\ caller.rx # <<>>
    /\ caller' = [caller EXCEPT !.pc = "dequeue", !.spawned = TRUE]
    /\ UNCHANGED <<lob, outbound_queue, run>>
    /\ UNCHANGED notEngine

\* outbound.dequeue() by the caller
CallerDequeue ==
    /\ caller.pc = "dequeue"
    /\ LET d == Dequeue(outbound_queue)
       IN  /\ outbound_queue' = d.q
           /\ caller' = [caller EXCEPT !.pc = "done", !.data = d.kind]
    /\ UNCHANGED <<lob, run>>
    /\ UNCHANGED notEngine

\* the spawned thread takes the next order from rx and applies it to its book
ThreadProcess ==
    /\ caller.spawned
    /\ ~run.panicked
    /\ caller.pending = <<>>
    /\ caller.rx # <<>>
    /\ LET seq_order == Head(caller.rx)
           r == ProcessOrder(lob, seq_order)
       IN  /\ lob' = r.book
           /\ run' = [run EXCEPT !.panicked = r.panicked,
                                 !.taken = Append(@, Taken(lob, seq_order, r))]
           /\ caller' = [caller EXCEPT !.rx = Tail(@), !.pending = r.msgs]
    /\ UNCHANGED outbound_queue
    /\ UNCHANGED notEngine

\* the spawned thread's let _ = outbound_queue.enqueue(..)
ThreadEmit ==
    /\ caller.pending # <<>>
    /\ outbound_queue' = Enqueue(outbound_queue, AsBytes(Head(caller.pending))).q
    /\ run' = [run EXCEPT !.emitted = Append(@, Head(caller.pending))]
    /\ caller' = [caller EXCEPT !.pending = Tail(@)]
    /\ UNCHANGED lob
    /\ UNCHANGED notEngine

NextEngineCaller ==
    \/ CallerSend
    \/ CallerRun
    \/ CallerDequeue
    \/ ThreadProcess
    \/ ThreadEmit

(***************************************************************************)
(* enqueue and dequeue on a queue opened from a file that exists already.  *)
(* MmapQueue::open checks the magic and the file's size only, so head,     *)
(* tail and the slots are whatever the file holds.                         *)
(***************************************************************************)
\* the queues open can return for a file of Capacity slots
OpenedQueues ==
    [capacity  : {Capacity},
     slot_size : {4 + MaxPayload},
     mask      : {Capacity - 1},
     head      : 0..(Modulus - 1),
     tail      : 0..(Modulus - 1),
     slots     : [0..(Capacity - 1) ->
                     [len : 0..(MaxPayload + 1),
                      buf : {Zeros(MaxPayload), [i \in 1..MaxPayload |-> 1]}]]]

\* MmapQueue::create
InitMapped ==
    mapped = [q |-> Create(Capacity, MaxPayload), n |-> 0, op |-> "none",
              arg |-> <<>>, res |-> "none", out |-> <<>>]

\* MmapQueue::open
InitOpened ==
    mapped \in [q : OpenedQueues, n : {0}, op : {"none"}, arg : {<<>>},
                res : {"none"}, out : {<<>>}]

\* q.enqueue(payload)
OpEnqueue ==
    /\ mapped.n < MaxOps
    /\ \E payload \in QPayloads :
          LET e == Enqueue(mapped.q, payload)
          IN  mapped' = [q |-> e.q, n |-> mapped.n + 1, op |-> "enqueue",
                         arg |-> payload, res |-> IF e.ok THEN "ok" ELSE e.err,
                         out |-> <<>>]
    /\ UNCHANGED <<qvars, lvars, pvars, evars>>

\* q.dequeue()
OpDequeue ==
    /\ mapped.n < MaxOps
    /\ LET d == Dequeue(mapped.q)
       IN  mapped' = [q |-> d.q, n |-> mapped.n + 1, op |-> "dequeue",
                      arg |-> <<>>, res |-> d.kind, out |-> d.out]
    /\ UNCHANGED <<qvars, lvars, pvars, evars>>

NextQueueOps ==
    \/ OpEnqueue
    \/ OpDequeue

Init ==
    /\ InitQueue
    /\ InitLob
    /\ InitPipeline
    /\ InitEngine
    /\ InitMapped

SpecQueue == Init /\ [][NextQueue]_vars

SpecLob == Init /\ [][NextLob]_vars

SpecPipeline == Init /\ [][NextPipeline]_vars

\* a book that only ever sees insert
SpecLobInsert == Init /\ [][LobInsert]_vars

SpecEngine == Init /\ [][NextEngine]_vars

SpecEngineCaller == Init /\ [][NextEngineCaller]_vars

\* enqueue and dequeue on a queue opened from any file open accepts
InitQueueOps ==
    /\ InitQueue
    /\ InitLob
    /\ InitPipeline
    /\ InitEngine
    /\ InitOpened

SpecQueueOps == InitQueueOps /\ [][NextQueueOps]_vars

\* the sequencer's thread keeps being scheduled
SpecPipelineFair == SpecPipeline /\ WF_vars(SequencerStep)

(***************************************************************************)
(* Claims about the queue.                                                 *)
(***************************************************************************)
\* C1: with one producer and one consumer, under every interleaving of their
\* steps, the payloads returned by the successful dequeues are a prefix of
\* the successfully enqueued payloads: same order, nothing lost, duplicated
\* or altered, also after the slot index has wrapped past the capacity.
C1_FifoPrefix ==
    /\ IsPrefix(deqHist, enqHist)
    /\ cons.pc = "advance" =>
          /\ Len(deqHist) < Len(enqHist)
          /\ cons.out = enqHist[Len(deqHist) + 1]

\* C1 witness: more payloads than the queue has slots went through it, so the
\* slot index wrapped, while the producer was in the middle of an enqueue.
C1_Witness ==
    /\ Len(deqHist) > Capacity
    /\ deqHist = SubSeq(enqHist, 1, Len(deqHist))
    /\ prod.pc = "write_buf"
    /\ \E i \in 1..Len(deqHist) : deqHist[i] # deqHist[1]

\* C2: an enqueue of a payload within the size limit fails with overflow only
\* when exactly capacity messages are outstanding (tail - head = capacity at
\* the producer's loads), and an enqueue called after a dequeue completed,
\* with no enqueue in between, does not fail with overflow.
C2_OverflowOnlyWhenFull ==
    prod.res = "overflow" =>
        /\ WrapSub(prod.tail, prod.head) = queue.capacity
        /\ prod.outstanding = queue.capacity
        /\ ~prod.sawFreed

\* C2 witness: the queue held capacity messages, one was dequeued, and the
\* enqueue called after that dequeue passed the overflow check.
C2_Witness ==
    /\ prod.sawFreed
    /\ prod.pc = "write_len"
    /\ prod.outstanding = queue.capacity - 1
    /\ prod.outstanding > 0

(***************************************************************************)
(* Claims about the sequencer and the pipeline.                            *)
(***************************************************************************)
\* the i-th message written to a queue nobody dequeues from
EntryAt(q, i) ==
    LET idx == SlotIndex(q, i - 1) IN ReadBuf(q, idx, q.slots[idx].len)

\* the write-ahead log as it stands in its file
LogContents == [i \in 1..write_head_log.tail |-> EntryAt(write_head_log, i)]

SeqIdOf(bytes) == DeserializeRawOrder(bytes).val.seq_id

\* C3: every RawOrder enqueued on inbound-engine was enqueued on the
\* write-ahead log at an earlier step of the sequencer: at the step that
\* forwards an order the log already holds it, so the forwarded orders are
\* always among the logged ones.
C3_WriteAhead ==
    [][\A i \in 1..Len(hist.forwarded') :
          /\ i <= write_head_log.tail
          /\ EntryAt(write_head_log, i) = hist.forwarded'[i]
          /\ i <= Len(LogContents')
          /\ LogContents'[i] = hist.forwarded'[i]]_vars

\* C3 witness: two orders were logged and forwarded.
C3_Witness ==
    /\ Len(hist.forwarded) >= 2
    /\ hist.forwarded = SubSeq(LogContents, 1, Len(hist.forwarded))

\* C4: the seq_ids the sequencer assigns are contiguous from 0: the k-th
\* RawOrder written to the log carries seq_id k-1, and the order about to be
\* logged carries the next one.
C4_SeqContiguous ==
    /\ \A k \in 1..Len(LogContents) : SeqIdOf(LogContents[k]) = k - 1
    /\ LogContents = hist.logged
    /\ sequencer.pc = "in_log" =>
          /\ SeqIdOf(sequencer.payload) = Len(hist.logged)
          /\ sequencer.seq = Len(hist.logged) + 1
    /\ sequencer.pc \in {"in_deq", "out_deq", "out_fwd", "in_fwd"} =>
          sequencer.seq = Len(hist.logged)

\* C4 witness: two orders are in the log and a third is about to be logged.
C4_Witness ==
    /\ Len(LogContents) >= 2
    /\ sequencer.pc = "in_log"

\* C5: when the log enqueue fails for a submission, the submission is not
\* forwarded and the seq counter keeps the value it had before the
\* submission was taken.
C5_SeqKeptOnLogFailure ==
    sequencer.err = "log" =>
        /\ sequencer.payload \notin {hist.forwarded[i] : i \in 1..Len(hist.forwarded)}
        /\ sequencer.seq = sequencer.seq_at_take

\* C6 as stated: with the log full, the next submission is still logged and
\* forwarded and the sequencer keeps running.
C6_LoggedWhenFull ==
    (sequencer.seq > LogCapacity /\ sequencer.pc # "in_log") =>
        /\ Len(hist.logged) = sequencer.seq
        /\ Len(hist.forwarded) >= sequencer.seq - 1
        /\ sequencer.pc # "failed"

\* C6 amended: the log is a bounded queue nobody drains and nothing in it is
\* overwritten: with LogCapacity events in it, the log enqueue of the next
\* submission fails with overflow, the submission is not forwarded and run
\* returns the error.
C6_LogFullStopsSequencer ==
    /\ LogContents = hist.logged
    /\ Len(hist.logged) <= LogCapacity
    /\ (sequencer.seq > LogCapacity /\ sequencer.pc # "in_log") =>
          /\ sequencer.pc = "failed"
          /\ sequencer.err = "log"
          /\ Len(hist.logged) = LogCapacity
          /\ Len(hist.forwarded) = LogCapacity
          /\ sequencer.payload \notin
                {hist.forwarded[i] : i \in 1..Len(hist.forwarded)}

\* C6 witness: a submission met a full log.
C6_Witness ==
    /\ sequencer.err = "log"
    /\ write_head_log.tail = LogCapacity

StrictlyIncreasing(ids) == \A i, j \in 1..Len(ids) : i < j => ids[i] < ids[j]

ForwardedSeqIds == [i \in 1..Len(hist.forwarded) |-> SeqIdOf(hist.forwarded[i])]

\* C7: RawOrders are observed in strictly increasing seq_id order on
\* inbound-engine and by the thread that owns the book; what that thread has
\* seen is a prefix of what the sequencer forwarded.
C7_SeqOrderPreserved ==
    /\ StrictlyIncreasing(ForwardedSeqIds)
    /\ StrictlyIncreasing(hist.lobSeen)
    /\ IsPrefix(hist.lobSeen, ForwardedSeqIds)

\* C7 witness: the book's thread has taken two orders from the channel.
C7_Witness == Len(hist.lobSeen) >= 2

SequencerFailed == sequencer.pc = "failed"

DistinctOrderIds ==
    \A i, j \in 1..Len(book.orders) :
        book.orders[i].order_id = book.orders[j].order_id => i = j

\* C10: after any sequence of insert and remove operations (sizes > 0,
\* distinct order ids), the total volume of every existing price level is
\* the sum of the sizes of the orders reachable from its head through next.
C10_VolumeIsSumOfSizes ==
    (DistinctOrderIds /\ ~lobPanicked) =>
        \A lh \in LiveLimits(book) :
            book.limits[lh].vol = SumSizes(book, LevelOrders(book, lh))


(***************************************************************************)
(* Claims about the matching engine's book after a trade.                  *)
(***************************************************************************)
\* what run did with the order it took last
LastTaken == run.taken[Len(run.taken)]

\* the last order traded against a resting order and left some of it
PartiallyFilledResting ==
    /\ run.taken # <<>>
    /\ ~run.panicked
    /\ LastTaken.is_match
    /\ LastTaken.quantity_to_trade < LastTaken.resting_size

\* the level of an order of the book, NULL when the side's index has none at
\* its price
LevelOf(b, o) ==
    IF o.price \in DOMAIN b[MapOf(o.side)] THEN b[MapOf(o.side)][o.price] ELSE NULL

\* C11: after the engine partially fills a resting order, the resting order
\* stays in the book with its reduced size, and depth(side, price) at its
\* level is the sum of the remaining sizes of the orders at that level.
C11_DepthAfterPartialFill ==
    PartiallyFilledResting =>
        LET h  == LastTaken.other_side
            o  == lob.orders[h]
            lh == LevelOf(lob, o)
        IN  /\ o.order_id \in DOMAIN lob.ord_map
            /\ lob.ord_map[o.order_id] = h
            /\ o.size = LastTaken.resting_size - LastTaken.quantity_to_trade
            /\ lh # NULL
            /\ \E i \in 1..Len(LevelOrders(lob, lh)) : LevelOrders(lob, lh)[i] = h
            /\ Depth(lob, o.side, o.price) =
                  [is_some |-> TRUE, val |-> SumSizes(lob, LevelOrders(lob, lh))]


(***************************************************************************)
(* Claims about the order book's best-quote caches.                        *)
(***************************************************************************)
\* the orders of one side that the order index holds
IndexedOn(b, side) ==
    {h \in 1..Len(b.orders) :
        /\ b.orders[h].side = side
        /\ b.orders[h].order_id \in DOMAIN b.ord_map
        /\ b.ord_map[b.orders[h].order_id] = h}

\* the order of one side that was inserted first, NULL when there was none
FirstOn(b, side) ==
    LET hs == {h \in 1..Len(b.orders) : b.orders[h].side = side}
    IN  IF hs = {} THEN NULL ELSE CHOOSE h \in hs : \A g \in hs : h <= g

RemoveStep ==
    /\ DOMAIN book'.ord_map # DOMAIN book.ord_map
    /\ DOMAIN book'.ord_map \subseteq DOMAIN book.ord_map

\* the order that step removes
RemovedHandle ==
    book.ord_map[CHOOSE id \in DOMAIN book.ord_map : id \notin DOMAIN book'.ord_map]

BestOf(b, side) == IF side = "ASK" THEN b.best_ask ELSE b.best_bid

\* the head of the top level of a side: lowest ASK price, highest BID price
TopHead(b, side) ==
    LET list == b[ListOf(side)]
    IN  IF side = "ASK" THEN b.limits[list[MinKey(list)]].head
        ELSE b.limits[list[MaxKey(list)]].head

IndexedAt(b, side, price) == {h \in IndexedOn(b, side) : b.orders[h].price = price}

\* whether order handle h is the head or the tail of a live level of the
\* book, or on the chain from its head
InSomeLevel(b, h) ==
    \E lh \in LiveLimits(b) :
        \/ b.limits[lh].head = h
        \/ b.limits[lh].tail = h
        \/ \E i \in 1..Len(LevelOrders(b, lh)) : LevelOrders(b, lh)[i] = h

\* depth(side, price) after the step is the volume before it less the size
\* of removed order h, none if no other order rested there
DepthFollows(h) ==
    LET o      == book.orders[h]
        before == Depth(book, o.side, o.price)
        after  == Depth(book', o.side, o.price)
    IN  IF IndexedAt(book, o.side, o.price) = {h}
        THEN ~after.is_some
        ELSE after = [is_some |-> TRUE, val |-> before.val - o.size]

\* C14: after remove(id) of an id in the book, no order with that id is
\* reachable from the order index, from a level's head, tail or chain, or
\* from a best-quote cache, and depth(side, price) is the level's previous
\* volume less the removed size, none if the level became empty.
C14_RemovedIsGone ==
    [][(RemoveStep /\ DistinctOrderIds /\ ~lobPanicked') =>
          LET h == RemovedHandle
          IN  /\ book.orders[h].order_id \notin DOMAIN book'.ord_map
              /\ ~InSomeLevel(book', h)
              /\ book'.best_ask # h
              /\ book'.best_bid # h
              /\ DepthFollows(h)]_vars


\* the orders a book still refers to: from the order index, from a live
\* level's head, tail or chain, or from a best-quote cache
Referenced(b) ==
    {h \in 1..Len(b.orders) :
        \/ \E id \in DOMAIN b.ord_map : b.ord_map[id] = h
        \/ InSomeLevel(b, h)
        \/ b.best_ask = h
        \/ b.best_bid = h}

\* structural equality of book a with the earlier book b: the same levels
\* with the same head, tail and volume, the same order index, the same
\* caches, and every order b refers to unchanged, its links included
SameBook(a, b) ==
    /\ a.ask_map = b.ask_map
    /\ a.bid_map = b.bid_map
    /\ a.ask_list = b.ask_list
    /\ a.bid_list = b.bid_list
    /\ a.ord_map = b.ord_map
    /\ a.best_ask = b.best_ask
    /\ a.best_bid = b.best_bid
    /\ \A lh \in LiveLimits(b) : a.limits[lh] = b.limits[lh]
    /\ \A h \in Referenced(b) : a.orders[h] = b.orders[h]

\* the raw orders with an order id the book has never seen
FreshInputs == {raw \in LobInputs : raw.order_id = Len(book.orders) + 1}

\* insert(order) followed by remove(order.order_id)
InsertThenRemove(b, raw) == Remove(Insert(b, raw), raw.order_id)

\* C15: from every reachable book, insert of an order with a fresh order id
\* followed by remove of that id gives a book structurally equal to the one
\* before the insert.
C15_InsertRemoveRoundTrip ==
    (DistinctOrderIds /\ ~lobPanicked /\ Len(book.orders) < MaxOrders) =>
        \A raw \in FreshInputs : SameBook(InsertThenRemove(book, raw), book)


\* how many times order handle h occurs on the chain from a level's head
Occurrences(b, lh, h) ==
    Cardinality({i \in 1..Len(LevelOrders(b, lh)) : LevelOrders(b, lh)[i] = h})

\* C16: every order id in the order index refers to an order that is
\* reachable from the head of exactly one price level, the one at the
\* order's price on the order's side, exactly once.
C16_IndexedOrderInOneLevel ==
    (DistinctOrderIds /\ ~lobPanicked) =>
        \A id \in DOMAIN book.ord_map :
            LET h  == book.ord_map[id]
                lh == LevelOf(book, book.orders[h])
            IN  /\ lh # NULL
                /\ Occurrences(book, lh, h) = 1
                /\ \A other \in LiveLimits(book) \ {lh} : Occurrences(book, other, h) = 0

\* C17: a price level exists, in the side's hash index and in its price
\* ladder, exactly when some order of the order index rests at that price on
\* that side.
C17_LevelIffOrders ==
    (DistinctOrderIds /\ ~lobPanicked) =>
        \A side \in Sides : \A price \in Prices :
            /\ price \in DOMAIN book[MapOf(side)] <=> IndexedAt(book, side, price) # {}
            /\ price \in DOMAIN book[ListOf(side)] <=> IndexedAt(book, side, price) # {}


(***************************************************************************)
(* Claims about the execution messages of the matching engine.             *)
(***************************************************************************)
\* the quantity an execution carries: PARTIAL(price, qty) carries qty, the
\* other variants have no field
CarriedQty(execution) == IF execution.kind = "PARTIAL" THEN execution.qty ELSE 0

RECURSIVE SumCarried(_)
SumCarried(msgs) ==
    IF msgs = <<>> THEN 0
    ELSE CarriedQty(Head(msgs).execution) + SumCarried(Tail(msgs))

\* the total by which run reduced resting orders (line 85)
RECURSIVE SumMatched(_)
SumMatched(taken) ==
    IF taken = <<>> THEN 0
    ELSE (IF Head(taken).is_match THEN Head(taken).quantity_to_trade ELSE 0)
         + SumMatched(Tail(taken))

\* C18: the traded quantities carried by the emitted PARTIAL and FILL
\* messages add up to the total quantity matched.
C18_EmittedQtyIsMatchedQty ==
    SumCarried(run.emitted) = SumMatched(run.taken)

\* an execution of the given kind was emitted under seq_id
EmittedFor(seq_id, kind) ==
    \E i \in 1..Len(run.emitted) :
        /\ run.emitted[i].seq_id = seq_id
        /\ run.emitted[i].execution.kind = kind

\* the seq_ids of the orders whose remaining size matching brought to 0:
\* incoming orders left with nothing, resting orders traded in full
FilledSeqIds ==
    {run.taken[i].order.seq_id : i \in {j \in 1..Len(run.taken) :
        run.taken[j].is_match /\ run.taken[j].size = 0}}
    \cup
    {lob.orders[run.taken[i].other_side].seq_id : i \in {j \in 1..Len(run.taken) :
        /\ run.taken[j].is_match
        /\ run.taken[j].quantity_to_trade = run.taken[j].resting_size}}

\* C19: for every order, resting or incoming, a FILL carrying its seq_id is
\* emitted exactly when matching brings its remaining size to 0.
C19_FillIffSizeZero ==
    \A i \in 1..Len(run.taken) :
        LET seq_id == run.taken[i].order.seq_id
        IN  EmittedFor(seq_id, "FILL") <=> seq_id \in FilledSeqIds

\* C20: INSERTED is emitted for an incoming order exactly when it has size
\* left after the crossing step and is inserted into the book.
C20_InsertedIffRests ==
    \A i \in 1..Len(run.taken) :
        EmittedFor(run.taken[i].order.seq_id, "INSERTED")
            <=> (run.taken[i].size > 0 /\ run.taken[i].inserted)


(***************************************************************************)
(* Claims about the crossing step of the matching engine.                  *)
(***************************************************************************)
Opposite(side) == IF side = "BID" THEN "ASK" ELSE "BID"

\* whether an incoming order of the given side and price crosses resting
\* order o (lines 68-71)
Crosses(side, price, o) ==
    IF side = "BID" THEN price >= o.price ELSE o.price >= price

\* the indexed orders of the opposite side that still have size and that the
\* incoming order crosses
StillCrossing(b, seq_order) ==
    {h \in IndexedOn(b, Opposite(seq_order.side)) :
        /\ b.orders[h].size > 0
        /\ Crosses(seq_order.side, seq_order.price, b.orders[h])}

\* C21: an incoming order that crosses is matched against successive resting
\* orders until it is exhausted or the book no longer crosses: when run is
\* done with an order that traded, either nothing of it is left or no
\* resting order crosses it any more.
C21_SweepsUntilExhausted ==
    (run.taken # <<>> /\ LastTaken.is_match) =>
        \/ LastTaken.size = 0
        \/ StillCrossing(lob, LastTaken.order) = {}


\* a step in which run takes one more order from rx
RunStep == Len(run'.taken) = Len(run.taken) + 1

\* the messages that step hands to enqueue
NewMessages == SubSeq(run'.emitted, Len(run.emitted) + 1, Len(run'.emitted))

\* the best order of a side as the book holds it: the head of the lowest ASK
\* level or of the highest BID level, NULL on a side without levels
TrueBest(b, side) ==
    IF DOMAIN b[ListOf(side)] = {} THEN NULL ELSE TopHead(b, side)

\* C22: an incoming order trades exactly when an opposite best order exists
\* and crosses; otherwise no resting order is modified, the incoming order is
\* inserted with its full size, and the one message emitted is
\* (its seq_id, INSERTED).
C22_TradesIffCrosses ==
    [][RunStep =>
          LET t    == run'.taken[Len(run'.taken)]
              o    == t.order
              best == TrueBest(lob, Opposite(o.side))
          IN  /\ t.other_side = best
              /\ t.is_match <=>
                    (best # NULL /\ Crosses(o.side, o.price, lob.orders[best]))
              /\ t.is_match => t.quantity_to_trade > 0
              /\ ~t.is_match =>
                    /\ \A h \in 1..Len(lob.orders) :
                          lob'.orders[h].size = lob.orders[h].size
                    /\ Len(lob'.orders) = Len(lob.orders) + 1
                    /\ o.order_id \in DOMAIN lob'.ord_map
                    /\ lob'.ord_map[o.order_id] = Len(lob'.orders)
                    /\ lob'.orders[Len(lob'.orders)].size = o.size
                    /\ NewMessages = <<ExecuteMessage(o.seq_id, Inserted)>>]_vars

\* C22 witness: one order met an opposite best it did not cross and rested,
\* another crossed and traded.
C22_Witness ==
    /\ \E i \in 1..Len(run.taken) :
          /\ run.taken[i].other_side # NULL
          /\ ~run.taken[i].is_match
          /\ run.taken[i].inserted
    /\ \E j \in 1..Len(run.taken) :
          /\ run.taken[j].is_match
          /\ run.taken[j].quantity_to_trade > 0


(***************************************************************************)
(* Claims about the engine's thread and its outbound queue.                *)
(***************************************************************************)
\* C23: once an order has been sent and run(rx) has returned, the caller's
\* dequeue on the outbound queue returns a message.
C23_ExecutionPublishedWhenRunReturns ==
    caller.pc = "done" => caller.data = "some"


\* the messages of one iteration that report on a resting order
ForResting(msgs) ==
    {i \in 1..Len(msgs) : msgs[i].execution.kind \in {"PARTIAL", "FILL"}}

\* C24: in every iteration of run, a PARTIAL or FILL for a resting order is
\* handed to enqueue before the message that carries the incoming order's
\* seq_id, and that message is the last of the iteration.
C24_RestingReportedFirst ==
    [][RunStep =>
         LET o    == run'.taken[Len(run'.taken)].order
             msgs == NewMessages
         IN  \A i \in ForResting(msgs) :
                /\ msgs[i].seq_id # o.seq_id
                /\ \A k \in 1..i : msgs[k].seq_id # o.seq_id
                /\ msgs[Len(msgs)].seq_id = o.seq_id
                /\ i < Len(msgs)]_vars

C24_Witness ==
    \E i \in 1..(Len(run.emitted) - 1) :
        /\ run.emitted[i].execution.kind = "PARTIAL"
        /\ run.emitted[i].seq_id # run.emitted[i + 1].seq_id
        /\ run.emitted[i + 1].seq_id = LastTaken.order.seq_id

\* C25: when an order trades, the quantity is the smaller of the resting
\* order's size and the incoming order's size, both sizes go down by exactly
\* that quantity and neither goes below 0, and a PARTIAL carries the resting
\* order's price.
C25_TradeIsMinOfSizes ==
    [][(RunStep /\ run'.taken[Len(run'.taken)].is_match) =>
         LET t       == run'.taken[Len(run'.taken)]
             o       == t.order
             resting == lob.orders[t.other_side]
             qty     == t.quantity_to_trade
         IN  /\ qty <= resting.size
             /\ qty <= o.size
             /\ qty = resting.size \/ qty = o.size
             /\ lob'.orders[t.other_side].size = resting.size - qty
             /\ lob'.orders[t.other_side].size >= 0
             /\ t.size = o.size - qty
             /\ t.size >= 0
             /\ t.inserted => lob'.orders[lob'.ord_map[o.order_id]].size = o.size - qty
             /\ \A i \in 1..Len(NewMessages) :
                   NewMessages[i].execution.kind = "PARTIAL" =>
                       /\ NewMessages[i].seq_id = resting.seq_id
                       /\ NewMessages[i].execution.price = resting.price
                       /\ NewMessages[i].execution.qty = qty]_vars

\* an order traded against a larger resting order at a price other than its
\* own, and the PARTIAL was handed to enqueue
C25_Witness ==
    /\ run.taken # <<>>
    /\ LastTaken.is_match
    /\ LastTaken.quantity_to_trade = LastTaken.order.size
    /\ LastTaken.quantity_to_trade < LastTaken.resting_size
    /\ LastTaken.order.price # lob.orders[LastTaken.other_side].price
    /\ run.emitted[Len(run.emitted) - 1].execution.kind = "PARTIAL"


(***************************************************************************)
(* Claims about protocol violations, overflow and malformed messages.      *)
(***************************************************************************)
\* the step is an insert: the book has one order more
InsertStep == Len(book'.orders) = Len(book.orders) + 1

\* C26: an insert under an order_id that the order index already holds adds
\* no order: the order index keeps the order it held under that id, the new
\* order is in no level, and so no two orders of the book share an order_id.
C26_DuplicateIdRejected ==
    [][(InsertStep /\ book'.orders[Len(book'.orders)].order_id \in DOMAIN book.ord_map) =>
         LET new == Len(book'.orders)
             id  == book'.orders[new].order_id
         IN  /\ id \in DOMAIN book'.ord_map
             /\ book'.ord_map[id] = book.ord_map[id]
             /\ ~InSomeLevel(book', new)
             /\ \A h \in 1..Len(book.orders) :
                   (InSomeLevel(book', h) /\ book'.orders[h].order_id = id)
                       => h = book.ord_map[id]]_vars


\* the executions handed to outbound_queue.enqueue that the queue refused:
\* tail counts the enqueues that succeeded
Dropped == Len(run.emitted) - outbound_queue.tail

\* C27: the engine takes no further order once an enqueue of an execution on
\* its outbound queue has failed: it never drops an execution and goes on.
C27_OverflowStopsEngine ==
    [][RunStep => Dropped = 0]_vars


\* the step dequeues from q a message that does not decode
TakesMalformedOrder ==
    /\ inbound_manager'.head = inbound_manager.head + 1
    /\ ~DeserializeOrderValue(Dequeue(inbound_manager).out).ok

TakesMalformedExecution ==
    /\ outbound_engine'.head = outbound_engine.head + 1
    /\ ~DeserializeExecuteMessageOk(Dequeue(outbound_engine).out)

\* C28: a step of the sequencer that takes a malformed message from
\* inbound-manager or outbound-engine assigns no seq_id, logs and forwards
\* nothing, and leaves the sequencer running, so that it goes on with the
\* messages that follow.
C28_MalformedOnlyDropped ==
    [][(TakesMalformedOrder \/ TakesMalformedExecution) =>
         /\ sequencer'.seq = sequencer.seq
         /\ write_head_log' = write_head_log
         /\ inbound_engine' = inbound_engine
         /\ outbound_manager' = outbound_manager
         /\ ~SequencerFailed']_vars


(***************************************************************************)
(* Claims about the behaviour of the reference source.                     *)
(***************************************************************************)
\* the resting orders whose size the step changes
Resized == {h \in 1..Len(lob.orders) : lob'.orders[h].size # lob.orders[h].size}

\* C29: in every iteration of run the engine does at most one crossing step:
\* it changes the size of at most one resting order, hands at most one
\* PARTIAL or FILL to enqueue, and then inserts what is left of the incoming
\* order, if anything is.
C29_OneCrossingStep ==
    [][RunStep =>
         LET t == run'.taken[Len(run'.taken)]
             o == t.order
         IN  /\ Cardinality(Resized) <= 1
             /\ Resized \subseteq {t.other_side}
             /\ Cardinality(ForResting(NewMessages)) <= 1
             /\ t.size > 0 =>
                   /\ o.order_id \in DOMAIN lob'.ord_map
                   /\ lob'.orders[lob'.ord_map[o.order_id]].size = t.size]_vars


\* C30: after any sequence of inserts and removes, on each side the hash
\* index and the price ladder hold the same prices, and at each price both
\* refer to the same level.
C30_IndexAndLadderAgree ==
    \A side \in Sides :
        /\ DOMAIN book[MapOf(side)] = DOMAIN book[ListOf(side)]
        /\ \A price \in DOMAIN book[MapOf(side)] :
              book[MapOf(side)][price] = book[ListOf(side)][price]

\* both sides hold a level, one side holds two, and a level has been erased
C30_Witness ==
    /\ DOMAIN book.ask_map # {}
    /\ Cardinality(DOMAIN book.bid_list) = 2
    /\ \E lh \in 1..Len(book.limits) : lh \notin LiveLimits(book)


\* C31: after any sequence of inserts and removes, the orders reachable from
\* the head of a level through next are in the order of their insertion
\* (seq_id order), the head has no prev and the last of them has no next.
C31_LevelIsFifo ==
    \A lh \in LiveLimits(book) :
        LET chain == LevelOrders(book, lh)
        IN  /\ \A i, j \in 1..Len(chain) :
                  i < j => /\ chain[i] < chain[j]
                           /\ book.orders[chain[i]].seq_id < book.orders[chain[j]].seq_id
            /\ chain # <<>> =>
                  /\ book.orders[chain[1]].prev = NULL
                  /\ book.orders[chain[Len(chain)]].next = NULL

\* a level holds the first and the third order it was given, after the one
\* between them was removed
C31_Witness ==
    \E lh \in LiveLimits(book) :
        LET chain == LevelOrders(book, lh)
        IN  /\ Len(chain) >= 2
            /\ chain[2] > chain[1] + 1
            /\ book.orders[chain[1] + 1].price = book.limits[lh].price
            /\ book.orders[chain[1] + 1].side = book.orders[chain[1]].side


\* C32: after every iteration of run the engine's book is not crossed: every
\* resting BID has a price strictly below every resting ASK.
C32_BookNotCrossed ==
    \A bid \in IndexedOn(lob, "BID") : \A ask \in IndexedOn(lob, "ASK") :
        lob.orders[bid].price < lob.orders[ask].price

\* both sides hold an order, after an iteration that traded and one that
\* found an opposite best it did not cross
C32_Witness ==
    /\ IndexedOn(lob, "BID") # {}
    /\ IndexedOn(lob, "ASK") # {}
    /\ \E i \in 1..Len(run.taken) :
          run.taken[i].is_match /\ run.taken[i].quantity_to_trade > 0
    /\ \E i \in 1..Len(run.taken) :
          /\ run.taken[i].other_side # NULL
          /\ ~run.taken[i].is_match
          /\ run.taken[i].inserted


(***************************************************************************)
(* Claims about the queue between one producer and one consumer.           *)
(***************************************************************************)
\* the number of messages published and not yet consumed
Outstanding == Len(enqHist) - Len(deqHist)

\* the producer is between its overflow check and its store of tail
Writing == prod.pc \in {"write_len", "write_buf"}

\* the consumer is between its empty check and its store of head
Reading == cons.pc \in {"read_len", "copy"}

\* tail and head are the counts of enqueues and dequeues, and between them
\* lie at least 0 and at most capacity messages; a slot being written is not
\* the slot being read
QueueBounds ==
    /\ queue.tail = Len(enqHist) % Modulus
    /\ queue.head = Len(deqHist) % Modulus
    /\ 0 <= Outstanding
    /\ Outstanding <= queue.capacity
    /\ WrapSub(queue.tail, queue.head) = Outstanding
    /\ (Writing /\ Reading) =>
          SlotIndex(queue, prod.tail) # SlotIndex(queue, cons.head)

\* C33: in every reachable state of the queue 0 <= tail - head <= capacity
\* and the producer is not writing the slot the consumer is reading; no step
\* of enqueue changes head and no step of dequeue changes tail or a slot.
C33_IndicesWithinCapacity ==
    /\ []QueueBounds
    /\ [][/\ prod' # prod => queue'.head = queue.head
          /\ cons' # cons => (queue'.tail = queue.tail /\ queue'.slots = queue.slots)]_vars

\* the producer writes one slot while the consumer copies the other, after
\* the counters have gone round
C33_Witness ==
    /\ prod.pc = "write_buf"
    /\ cons.pc = "copy"
    /\ Len(enqHist) >= Modulus


\* the step applies one operation to the opened queue
OpStep == mapped'.n = mapped.n + 1

\* the length field of the slot at head
LenAtHead(q) == q.slots[SlotIndex(q, q.head)].len

\* C34: a failing queue operation changes nothing.  An enqueue of a payload
\* larger than a slot holds, or on a queue whose tail is capacity or more
\* ahead of head, is rejected, and a rejected enqueue leaves head, tail and
\* every slot as they were; a dequeue on an empty queue returns none and a
\* dequeue that finds a length larger than a slot holds returns an error,
\* and both leave head and tail as they were.
C34_FailureChangesNothing ==
    [][OpStep =>
         LET q    == mapped.q
             done == mapped'
         IN  /\ (done.op = "enqueue" /\ Len(done.arg) > MaxPayload) =>
                    done.res = "too_large"
             /\ (done.op = "enqueue" /\ Len(done.arg) <= MaxPayload
                   /\ WrapSub(q.tail, q.head) = q.capacity) =>
                    done.res = "overflow"
             /\ (done.op = "enqueue" /\ done.res \in {"too_large", "overflow"}) =>
                    /\ done.q.head = q.head
                    /\ done.q.tail = q.tail
                    /\ done.q.slots = q.slots
             /\ (done.op = "dequeue" /\ q.tail = q.head) =>
                    /\ done.res = "none"
                    /\ done.q.head = q.head
                    /\ done.q.tail = q.tail
             /\ (done.op = "dequeue" /\ q.tail # q.head /\ LenAtHead(q) > MaxPayload) =>
                    /\ done.res = "err"
                    /\ done.q.head = q.head
                    /\ done.q.tail = q.tail
             /\ (done.op = "dequeue" /\ done.res \in {"none", "err"}) =>
                    done.q = q]_vars

\* a dequeue has met a corrupted length after an enqueue was rejected
C34_Witness ==
    /\ mapped.n = 2
    /\ mapped.op = "dequeue"
    /\ mapped.res = "err"
    /\ WrapSub(mapped.q.tail, mapped.q.head) = mapped.q.capacity


\* full and empty are detected, and the slot is chosen, as the counts of
\* enqueues and dequeues without any wrap would have it
RightAcrossWrap ==
    /\ IsPrefix(deqHist, enqHist)
    /\ prod.res = "overflow" => prod.outstanding = queue.capacity
    /\ Writing =>
          /\ Outstanding < queue.capacity
          /\ SlotIndex(queue, prod.tail) = Len(enqHist) % queue.capacity
    /\ (Reading \/ cons.pc = "advance") =>
          /\ Outstanding >= 1
          /\ SlotIndex(queue, cons.head) = Len(deqHist) % queue.capacity
    /\ cons.pc = "advance" => cons.out = enqHist[Len(deqHist) + 1]

\* C35: the queue stays correct when head and tail wrap around their width:
\* an enqueue is refused exactly when capacity messages are outstanding, a
\* dequeue returns none exactly when none is, index & mask picks the slot of
\* the count modulo capacity, and the payloads come out in the order they
\* went in.
C35_CorrectAcrossWrap ==
    /\ []RightAcrossWrap
    /\ [][/\ (prod.pc = "load_head" /\ prod'.pc = "write_len") =>
                Outstanding < queue.capacity
          /\ (prod.pc = "load_head" /\ prod'.pc = "idle") =>
                Outstanding = queue.capacity
          /\ (cons.pc = "load_tail" /\ cons'.pc = "idle") => Outstanding = 0
          /\ (cons.pc = "load_tail" /\ cons'.pc = "read_len") => Outstanding >= 1]_vars

\* tail has wrapped and head has not, the queue is full and the producer has
\* been refused, and the consumer is about to return the oldest message
C35_Witness ==
    /\ queue.tail < queue.head
    /\ Len(enqHist) = Modulus
    /\ prod.res = "overflow"
    /\ prod.tail < prod.head
    /\ cons.pc = "advance"

====
